---- MODULE Spec2Model ----
(***************************************************************************)
(* specbridge: the SCPI control plane (AseqSCPIServer), the data-plane     *)
(* streamer (WaveformServerThread), the bridge main loop (main) and the    *)
(* calibration loader (ReadCalData) as one state machine.                  *)
(*                                                                         *)
(* Threads: "main" runs the accept loop and, inside server.MainLoop(), the *)
(* control session; "stream" is the thread spawned per control connection. *)
(* Every read or write of a shared global is one step, so that all         *)
(* interleavings of the unsynchronised flags are explored.                 *)
(***************************************************************************)
EXTENDS Integers, Sequences, FiniteSets, TLC

\* ---------------------------------------------------------------- bounds
\* Pixel count P (g_numPixels; 3653 on the real device, scaled down here).
g_numPixels == 3
\* Device frames are numbered cyclically 1..MaxFrames.
MaxFrames == 2
\* Data-plane connections that can wait in the listen queue.
MaxBacklog == 1

\* Calls of ReadCalData() considered
MaxLoads == 2

\* ------------------------------------------------------ program constants
\* const int framesize = 3699;
framesize == 3699
\* frameFlattened[i] = framePixels[i+32];
DummyPixels == 32
\* int g_numPixels = 3653;
RealNumPixels == 3653
\* sizeof(float)
SizeofFloat == 4
\* auto exposure = 12500;
InitialExposure == 12500
\* uint16_t samples
U16 == 65536

VARIABLES
    blob,                   \* text of the calibration flash, as read by readFlash
    g_model,
    g_serial,
    g_wavelengths,
    g_sensorResponse,
    g_absResponse,
    g_absCal,
    calFault,               \* history: ReadCalData indexed past the end of a vector
    lastQuery,              \* the query line OnQuery handled last
    replies,                \* what SendReply sent for it
    queryFault,             \* history: OnQuery indexed past the end of a vector
    listening,              \* g_dataSocket / g_scpiSocket are bound and listening
    mainPc,                 \* position of main(): startup step, then its accept loop
    nSessions,              \* live AseqSCPIServer objects
    nStreamers,             \* running WaveformServerThread threads
    g_waveformThreadQuit,
    g_triggerArmed,
    g_triggerOneShot,
    g_mutex,                \* "free", or the thread holding it
    cPc,                    \* position of the control session inside a handler
    startArg,               \* AcquisitionStart's oneShot parameter
    expArg,                 \* args[0] of the EXPOSURE command being handled
    exposure,               \* exposure the device currently has, in 10 us ticks
    devInFlight,            \* threads currently inside a device SDK call
    sPc,                    \* position of the streamer thread
    dataBacklog,            \* data-plane clients queued on g_dataSocket
    devFrame,               \* number of the last frame the device produced
    framePixels,            \* frame held by the streamer's raw buffer (0: none yet)
    frameFlattened,         \* the streamer's float buffer
    wire,                   \* last frame delivered on the data plane
    frameFresh,             \* history: framePixels holds a fetched frame not yet sent
    closeReason,            \* why the streamer left its loop
    startKind,              \* history: last start command of this session, until
                            \* stop/force; "carried": the session began armed and
                            \* has issued no start, force or stop yet
    fetchesSince,           \* history: successful fetches since that start (caps at 2)
    triggerErr              \* history: the triggerAcquisition of this iteration failed

calVars == <<blob, g_model, g_serial, g_wavelengths, g_sensorResponse,
             g_absResponse, g_absCal, calFault>>
queryVars == <<lastQuery, replies, queryFault>>

vars == <<calVars, queryVars, listening, mainPc, nSessions, nStreamers, g_waveformThreadQuit, g_triggerArmed,
          g_triggerOneShot, g_mutex, cPc, startArg, expArg, exposure, devInFlight,
          sPc, dataBacklog, devFrame, framePixels, frameFlattened, wire,
          frameFresh, closeReason, startKind, fetchesSince, triggerErr>>

mainVars == <<calVars, queryVars, listening, mainPc, nSessions, g_waveformThreadQuit>>
flagVars == <<g_triggerArmed, g_triggerOneShot>>
ctrlVars == <<cPc, startArg, expArg>>
bufVars  == <<devFrame, framePixels, frameFlattened, wire, frameFresh>>
histVars == <<startKind, fetchesSince, triggerErr>>

\* ------------------------------------------------------------- the device
\* Sample j of device frame n: a pattern that tells frames and indices apart.
Raw(n, j) == (n * 1000 + j) % U16

\* The next frame number the device hands out.
NextFrame(n) == (n % MaxFrames) + 1

\* uint16_t -> float: every 16-bit count is exactly representable in binary32.
U16ToFloat(x) == [f32 |-> x]

\* framePixels[j] for the buffer holding frame n; a read outside the
\* new uint16_t[framesize] allocation is marked.
FramePixelAt(n, j) == IF j >= 0 /\ j < framesize THEN Raw(n, j) ELSE -1

\* No argument: args is empty
NoArg == [given |-> FALSE, ok |-> FALSE, mant |-> 0, exp |-> 0]

\* args of an EXPOSURE line: a femtosecond count mant * 10^exp, a text that is
\* not a number, or nothing at all.
ExposureArgs == { [given |-> TRUE, ok |-> TRUE, mant |-> 2, exp |-> 13],
                  [given |-> TRUE, ok |-> FALSE, mant |-> 0, exp |-> 0],
                  NoArg }

RECURSIVE Pow10(_)
Pow10(n) == IF n <= 0 THEN 1 ELSE 10 * Pow10(n - 1)

\* double exposure = stod(args[0]) * 1e-10;   (fs -> 10 us ticks)
FsToTicks(a) == IF a.exp >= 10 THEN a.mant * Pow10(a.exp - 10) ELSE 0


\* ------------------------------------------------------------------- text
\* A string is a sequence of characters.  A decimal literal is kept as one
\* character carrying its value in units of 1/10000.
Ch(s) == [c |-> s, v |-> 0]

Num(n) == [c |-> "num", v |-> n]

NL == Ch("\n")

SP == Ch(" ")

CR == Ch("\r")

Str(s) == <<Ch(s)>>

\* explode(str, separator): str is cut at every separator and the non-empty
\* pieces are returned in order (a piece is pushed only `if(tmp != "")`, inside
\* the loop and after it).  cuts are the separator positions and both ends;
\* a piece starts after each cut that is followed by an ordinary character.
explode(str, separator) ==
    LET cuts == {0, Len(str) + 1} \cup {k \in 1..Len(str) : str[k] = separator}
        starts == {a \in cuts : a <= Len(str) /\ (a + 1) \notin cuts}
        nth(i) == CHOOSE a \in starts : Cardinality({b \in starts : b < a}) = i - 1
        endOf(a) == CHOOSE c \in cuts : c > a /\ \A d \in cuts : d > a => c <= d
    IN  [i \in 1..Cardinality(starts) |-> SubSeq(str, nth(i) + 1, endOf(nth(i)) - 1)]

isspace(ch) == ch.c \in {" ", "\n", "\r", "\t"}

\* Trim: "Skip leading spaces"
RECURSIVE SkipSpaces(_, _)
SkipSpaces(str, i) ==
    IF i <= Len(str) /\ isspace(str[i]) THEN SkipSpaces(str, i + 1) ELSE i

\* Trim: "Read non-space stuff"; spaces are kept in tmp until a non-space follows
RECURSIVE TrimFrom(_, _, _, _)
TrimFrom(str, i, tmp, ret) ==
    IF i > Len(str)
       THEN ret
       ELSE IF ~isspace(str[i])
               THEN TrimFrom(str, i + 1, <<>>, ret \o tmp \o <<str[i]>>)
               ELSE TrimFrom(str, i + 1, Append(tmp, str[i]), ret)

Trim(str) == TrimFrom(str, SkipSpaces(str, 1), <<>>, <<>>)

\* atof(line.c_str()): leading white space, then a decimal literal; 0 if none
atof(line) ==
    LET i == SkipSpaces(line, 1)
    IN  IF i <= Len(line) /\ line[i].c = "num" THEN line[i].v ELSE 0

\* snprintf(tmp, sizeof(tmp), "%.3f,", x): x rounded to three decimals
\* (value in units of 1/1000), then a comma
Fmt3(x) == [c |-> "num3", v |-> (x + 5) \div 10]

\* to_string(n)
to_string(n) == <<[c |-> "int", v |-> n]>>

\* ------------------------------------------------------- calibration flash
\* What an out-of-bounds read (vector::operator[] past size()) can do: the
\* process dies, or the read yields whatever lies there.
UBOutcomes == { [crash |-> TRUE, v |-> 0],
                [crash |-> FALSE, v |-> 0],
                [crash |-> FALSE, v |-> 77770000] }

\* lines[k] (k counted from 0) of a vector<string>
LineAt(lines, k, ub) == IF k < Len(lines) THEN lines[k + 1] ELSE <<Num(ub.v)>>

\* vec[k] (k counted from 0) of a vector<float>
VecAt(vec, k, ub) == IF k < Len(vec) THEN vec[k + 1] ELSE ub.v

\* Line ends of the blob: "\n", or "\r\n"
EOL(e) == IF e = "crlf" THEN <<CR, NL>> ELSE <<NL>>

RECURSIVE Concat(_)
Concat(ss) == IF ss = <<>> THEN <<>> ELSE Head(ss) \o Concat(Tail(ss))

\* One numeric line per table entry
TableLines(tbl, e) == Concat([i \in 1..Len(tbl) |-> <<Num(tbl[i])>> \o EOL(e)])

\* Lines 2..12 of the file: the irradiance coefficient, then ten more lines
Preamble(e) ==
    <<Num(12340000)>> \o EOL(e) \o Concat([i \in 1..10 |-> Str("info") \o EOL(e)])

IrrTable == [i \in 1..g_numPixels |-> 20000 + i]

\* The calibration file: header "model c.Y|c.N serial", preamble, wavelength
\* table, blank line, response table and, with c.Y, blank line and
\* irradiance table.
Blob(e, flag, wl, resp) ==
    <<Ch("M1"), SP, Ch(flag), SP, Ch("S7")>> \o EOL(e)
        \o Preamble(e)
        \o TableLines(wl, e)
        \o EOL(e)
        \o TableLines(resp, e)
        \o (IF flag = "c.Y" THEN EOL(e) \o TableLines(IrrTable, e) ELSE <<>>)

WlVals == {5000000, 5005004}

RespVals == {10000, 9996}

Blobs ==
    { Blob(e, flag, wl, resp) :
        e \in {"lf", "crlf"}, flag \in {"c.Y", "c.N"},
        wl \in [1..g_numPixels -> WlVals], resp \in [1..g_numPixels -> RespVals] }

DefaultBlob ==
    Blob("crlf", "c.Y", [i \in 1..g_numPixels |-> 5000000],
         [i \in 1..g_numPixels |-> 10000])

\* ReadCalData indexes lines[0], firstFields[0..2], lines[12 .. 12+P-1] and
\* lines[13+P .. 13+2P-1] without checking any size.
ReadCalIndexesExist(lines) ==
    /\ Len(lines) >= 13 + 2 * g_numPixels
    /\ Len(explode(lines[1], SP)) >= 3

\* for(i...) g_wavelengths.push_back(atof(lines[i+12].c_str()));
ReadWavelengths(lines, ub) ==
    [i \in 1..g_numPixels |-> atof(LineAt(lines, (i - 1) + 12, ub))]

\* for(i...) g_sensorResponse.push_back(atof(lines[i+13+g_numPixels].c_str()));
ReadSensorResponse(lines, ub) ==
    [i \in 1..g_numPixels |-> atof(LineAt(lines, (i - 1) + 13 + g_numPixels, ub))]

\* bool hasAbsCal = (firstFields[1] == "c.Y");
HasAbsCal(firstFields, ub) == LineAt(firstFields, 1, ub) = Str("c.Y")

\* The irradiance table: read only when the header says c.Y, else the vector
\* stays empty.
ReadAbsResponse(lines, hasAbsCal, ub) ==
    IF hasAbsCal
       THEN [i \in 1..g_numPixels |->
                atof(LineAt(lines, (i - 1) + 14 + 2 * g_numPixels, ub))]
       ELSE <<>>

\* The irradiance coefficient: line 2 of the file, 0 without c.Y
ReadAbsCal(lines, hasAbsCal, ub) ==
    IF hasAbsCal THEN atof(LineAt(lines, 1, ub)) ELSE 0

Running == mainPc \notin {"exited", "exit1", "aborted"}

\* ------------------------------------------------------------------ Init
\* What every start has in common: no session, no streamer, flags clear.
InitShared ==
    /\ lastQuery = "none"
    /\ replies = <<>>
    /\ queryFault = FALSE
    /\ nSessions = 0
    /\ nStreamers = 0
    /\ g_waveformThreadQuit = FALSE
    /\ g_triggerArmed = FALSE
    /\ g_triggerOneShot = FALSE
    /\ g_mutex = "free"
    /\ cPc = "idle"
    /\ startArg = FALSE
    /\ expArg = NoArg
    /\ devInFlight = {}
    /\ sPc = "none"
    /\ dataBacklog = 0
    /\ framePixels = 0
    /\ frameFlattened = <<>>
    /\ wire = [seq |-> 0, data |-> <<>>, bytes |-> 0, frame |-> 0]
    /\ frameFresh = FALSE
    /\ closeReason = "none"
    /\ startKind = "none"
    /\ fetchesSince = 0
    /\ triggerErr = FALSE

\* main() is entered: nothing is loaded, the device is not configured and a
\* calibration file sits in its flash.
InitCal ==
    /\ InitShared
    /\ blob \in Blobs
    /\ g_model = <<>>
    /\ g_serial = <<>>
    /\ g_wavelengths = <<>>
    /\ g_sensorResponse = <<>>
    /\ g_absResponse = <<>>
    /\ g_absCal = 0
    /\ calFault = FALSE
    /\ listening = FALSE
    /\ mainPc = "connect"
    /\ exposure = 0
    /\ devFrame = 0

\* main() has completed its startup ("Ready") with the default calibration
\* file: calibration loaded, exposure set, one frame fetched, both sockets
\* listening.
Init ==
    /\ InitShared
    /\ blob = DefaultBlob
    /\ g_model = Str("M1")
    /\ g_serial = Str("S7")
    /\ g_wavelengths = ReadWavelengths(explode(DefaultBlob, NL), [crash |-> FALSE, v |-> 0])
    /\ g_sensorResponse = ReadSensorResponse(explode(DefaultBlob, NL), [crash |-> FALSE, v |-> 0])
    /\ g_absResponse = ReadAbsResponse(explode(DefaultBlob, NL), TRUE, [crash |-> FALSE, v |-> 0])
    /\ g_absCal = ReadAbsCal(explode(DefaultBlob, NL), TRUE, [crash |-> FALSE, v |-> 0])
    /\ calFault = FALSE
    /\ listening = TRUE
    /\ mainPc = "accept"
    /\ exposure = InitialExposure
    /\ devFrame = 1

\* ---------------------------------------------------------------- startup
\* The device calls main() makes in order, each followed by `return 1` on error
StartupCalls == <<"connect", "readcal", "setFrameFormat", "setExposure",
                  "setAcquisitionParameters", "setExternalTrigger",
                  "triggerAcquisition", "getFrame", "listen">>

RECURSIVE IndexOf(_, _, _)
IndexOf(seq, x, k) == IF seq[k] = x THEN k ELSE IndexOf(seq, x, k + 1)

AfterStartupCall(step) == StartupCalls[IndexOf(StartupCalls, step, 1) + 1]

\* connectToDeviceByIndex, setFrameFormat, setExposure, setAcquisitionParameters,
\* setExternalTrigger, triggerAcquisition, getFrame: if(0 != (err = ...)) return 1;
Startup_DeviceCall(ok) ==
    /\ mainPc \in {"connect", "setFrameFormat", "setExposure",
                   "setAcquisitionParameters", "setExternalTrigger",
                   "triggerAcquisition", "getFrame"}
    /\ mainPc' = IF ok THEN AfterStartupCall(mainPc) ELSE "exit1"
    /\ exposure' = IF ok /\ mainPc = "setExposure" THEN InitialExposure ELSE exposure
    /\ devFrame' = IF ok /\ mainPc = "getFrame" THEN 1 ELSE devFrame
    /\ UNCHANGED <<calVars, queryVars, listening, nSessions, nStreamers,
                   g_waveformThreadQuit, flagVars, g_mutex, ctrlVars, devInFlight,
                   sPc, dataBacklog, framePixels, frameFlattened, wire, frameFresh,
                   closeReason, histVars>>

\* g_dataSocket.Bind(); Listen(); g_scpiSocket.Bind(); Listen();
Startup_Listen ==
    /\ mainPc = "listen"
    /\ mainPc' = "accept"
    /\ listening' = TRUE
    /\ UNCHANGED <<calVars, queryVars, nSessions, nStreamers,
                   g_waveformThreadQuit, flagVars, g_mutex, ctrlVars, exposure,
                   devInFlight, sPc, dataBacklog, bufVars, closeReason, histVars>>

\* ReadCalData(): readFlash, explode into lines, header fields, the two tables.
\* Reads past the end of lines or firstFields are undefined: ub says what
\* they do.
ReadCalData(flashOk, ub) ==
    /\ mainPc = "readcal"
    /\ IF ~flashOk
          THEN /\ mainPc' = "exit1"
               /\ UNCHANGED calVars
          ELSE LET lines == explode(blob, NL)
                   firstFields == explode(LineAt(lines, 0, ub), SP)
                   fault == ~(Len(lines) >= 1 /\ ReadCalIndexesExist(lines))
                   hasAbsCal == HasAbsCal(firstFields, ub)
               IN  /\ calFault' = fault
                   /\ blob' = blob
                   /\ IF fault /\ ub.crash
                         THEN /\ mainPc' = "aborted"
                              /\ UNCHANGED <<g_model, g_serial, g_wavelengths,
                                             g_sensorResponse, g_absResponse, g_absCal>>
                         ELSE /\ mainPc' = "setFrameFormat"
                              /\ g_model' = Trim(LineAt(firstFields, 0, ub))
                              /\ g_serial' = Trim(LineAt(firstFields, 2, ub))
                              /\ g_wavelengths' =
                                    g_wavelengths \o ReadWavelengths(lines, ub)
                              /\ g_sensorResponse' =
                                    g_sensorResponse \o ReadSensorResponse(lines, ub)
                              /\ g_absResponse' =
                                    g_absResponse \o ReadAbsResponse(lines, hasAbsCal, ub)
                              /\ g_absCal' = ReadAbsCal(lines, hasAbsCal, ub)
    /\ UNCHANGED <<queryVars, listening, nSessions, nStreamers,
                   g_waveformThreadQuit, flagVars, g_mutex, ctrlVars, exposure,
                   devInFlight, sPc, dataBacklog, bufVars, closeReason, histVars>>

\* ReadCalData() is called once more before the device is configured, up to
\* MaxLoads times in all (main calls it once; the function itself can be
\* called again).
CallReadCalDataAgain ==
    /\ mainPc = "setFrameFormat"
    /\ Len(g_wavelengths) < MaxLoads * g_numPixels
    /\ mainPc' = "readcal"
    /\ UNCHANGED <<calVars, queryVars, listening, nSessions, nStreamers,
                   g_waveformThreadQuit, flagVars, g_mutex, ctrlVars, exposure,
                   devInFlight, sPc, dataBacklog, bufVars, closeReason, histVars>>

\* ------------------------------------------------------- bridge main loop
\* OnQuit(): disconnectDeviceContext(&g_hDevice); exit(0);
OnQuit ==
    /\ mainPc' = "exited"
    /\ UNCHANGED <<calVars, queryVars, listening, nSessions, nStreamers,
                   g_waveformThreadQuit, flagVars, g_mutex,
                   ctrlVars, exposure, devInFlight, sPc, dataBacklog, bufVars,
                   closeReason, histVars>>

\* signal(SIGINT, OnQuit): the handler may run at any moment.
SigInt ==
    /\ Running
    /\ OnQuit

\* Socket scpiClient = g_scpiSocket.Accept();  (a control client connects)
MainAccept ==
    /\ mainPc = "accept"
    /\ mainPc' = "construct"
    /\ UNCHANGED <<calVars, queryVars, listening, nSessions, nStreamers,
                   g_waveformThreadQuit, flagVars, g_mutex,
                   ctrlVars, exposure, devInFlight, sPc, dataBacklog, bufVars,
                   closeReason, histVars>>

\* if(!scpiClient.IsValid()) break;  ...  OnQuit(SIGQUIT);
MainAcceptInvalid ==
    /\ mainPc = "accept"
    /\ OnQuit

\* AseqSCPIServer server(scpiClient.Detach());
MainConstruct ==
    /\ mainPc = "construct"
    /\ mainPc' = "spawn"
    /\ nSessions' = nSessions + 1
    /\ startKind' = IF g_triggerArmed THEN "carried" ELSE "none"
    /\ UNCHANGED <<calVars, queryVars, listening, nStreamers,
                   g_waveformThreadQuit, flagVars, g_mutex,
                   ctrlVars, exposure, devInFlight, sPc, dataBacklog, bufVars,
                   closeReason, fetchesSince, triggerErr>>

\* thread dataThread(WaveformServerThread);
MainSpawn ==
    /\ mainPc = "spawn"
    /\ mainPc' = "mainloop"
    /\ nStreamers' = nStreamers + 1
    /\ sPc' = "accept"
    /\ closeReason' = "none"
    /\ UNCHANGED <<calVars, queryVars, listening, nSessions,
                   g_waveformThreadQuit, flagVars, g_mutex,
                   ctrlVars, exposure, devInFlight, dataBacklog, bufVars, histVars>>

\* server.MainLoop() returns: the control client disconnected.
MainLoopReturn ==
    /\ mainPc = "mainloop"
    /\ cPc = "idle"
    /\ mainPc' = "setquit"
    /\ UNCHANGED <<calVars, queryVars, listening, nSessions, nStreamers,
                   g_waveformThreadQuit, flagVars, g_mutex,
                   ctrlVars, exposure, devInFlight, sPc, dataBacklog, bufVars,
                   closeReason, histVars>>

\* g_waveformThreadQuit = true;
MainSetQuit ==
    /\ mainPc = "setquit"
    /\ mainPc' = "join"
    /\ g_waveformThreadQuit' = TRUE
    /\ UNCHANGED <<calVars, queryVars, listening, nSessions, nStreamers, flagVars, g_mutex,
                   ctrlVars, exposure, devInFlight, sPc, dataBacklog, bufVars,
                   closeReason, histVars>>

JoinReturns_NoWait == TRUE

\* dataThread.join() returns once WaveformServerThread has returned.
JoinReturns == sPc = "done"

\* dataThread.join();
MainJoin ==
    /\ mainPc = "join"
    /\ JoinReturns
    /\ mainPc' = "clearquit"
    /\ sPc' = "none"
    /\ UNCHANGED <<calVars, queryVars, listening, nSessions, nStreamers,
                   g_waveformThreadQuit, flagVars, g_mutex,
                   ctrlVars, exposure, devInFlight, dataBacklog, bufVars,
                   closeReason, histVars>>

SessionEnd_Disarms == FALSE

\* The armed flag after ~AseqSCPIServer(): the destructor only logs
SessionEnd_Armed == g_triggerArmed

\* g_waveformThreadQuit = false;  then the iteration ends: ~AseqSCPIServer()
MainClearQuit ==
    /\ mainPc = "clearquit"
    /\ mainPc' = "accept"
    /\ g_waveformThreadQuit' = FALSE
    /\ nSessions' = nSessions - 1
    /\ g_triggerArmed' = SessionEnd_Armed
    /\ UNCHANGED <<calVars, queryVars, listening, nStreamers, g_triggerOneShot, g_mutex,
                   ctrlVars, exposure, devInFlight, sPc, dataBacklog, bufVars,
                   closeReason, histVars>>

\* --------------------------------------------------------- control session
\* MainLoop() is between two lines and can dispatch the next one.
CtrlIdle == mainPc = "mainloop" /\ cPc = "idle"

\* AcquisitionStart(oneShot), first statement: g_triggerArmed = true;
AcquisitionStart_Arm(oneShot) ==
    /\ CtrlIdle
    /\ g_triggerArmed' = TRUE
    /\ startArg' = oneShot
    /\ cPc' = "start2"
    /\ startKind' = IF oneShot THEN "oneshot" ELSE "repeat"
    /\ fetchesSince' = 0
    /\ UNCHANGED <<triggerErr, mainVars, nStreamers, g_triggerOneShot, g_mutex, expArg, exposure,
                   devInFlight, sPc, dataBacklog, bufVars, closeReason>>

\* AcquisitionStart(oneShot), second statement: g_triggerOneShot = oneShot;
AcquisitionStart_Mode ==
    /\ mainPc = "mainloop"
    /\ cPc = "start2"
    /\ g_triggerOneShot' = startArg
    /\ startArg' = FALSE
    /\ cPc' = "idle"
    /\ UNCHANGED <<mainVars, nStreamers, g_triggerArmed, g_mutex, expArg, exposure,
                   devInFlight, sPc, dataBacklog, bufVars, closeReason, histVars>>

\* AcquisitionForceTrigger(): g_triggerArmed = true;
AcquisitionForceTrigger ==
    /\ CtrlIdle
    /\ g_triggerArmed' = TRUE
    /\ startKind' = "none"
    /\ UNCHANGED <<mainVars, nStreamers, g_triggerOneShot, g_mutex, ctrlVars, exposure,
                   devInFlight, sPc, dataBacklog, bufVars, closeReason, fetchesSince, triggerErr>>

\* AcquisitionStop(): g_triggerArmed = false;
AcquisitionStop ==
    /\ CtrlIdle
    /\ g_triggerArmed' = FALSE
    /\ startKind' = "none"
    /\ UNCHANGED <<mainVars, nStreamers, g_triggerOneShot, g_mutex, ctrlVars, exposure,
                   devInFlight, sPc, dataBacklog, bufVars, closeReason, fetchesSince, triggerErr>>

\* The configuration operations with an empty body
SetterOps == {"SetChannelEnabled", "SetAnalogCoupling", "SetAnalogRange",
              "SetAnalogOffset", "SetDigitalThreshold", "SetDigitalHysteresis",
              "SetSampleRate", "SetSampleDepth", "SetTriggerDelay",
              "SetTriggerSource", "SetTriggerLevel", "SetTriggerTypeEdge",
              "SetEdgeTriggerEdge"}

\* One of the configuration operations is called; its parameters are unnamed
\* and unused, so nothing of the call is kept.
Setter_Call(op) ==
    /\ CtrlIdle
    /\ cPc' = "setter"
    /\ UNCHANGED <<mainVars, nStreamers, flagVars, g_mutex, startArg, expArg, exposure,
                   devInFlight, sPc, dataBacklog, bufVars, closeReason, histVars>>

Setter_Disarms == FALSE

\* What a configuration operation leaves in g_triggerArmed: its body is empty
Setter_Armed == g_triggerArmed

\* The empty body is done and the operation returns.
Setter_Return ==
    /\ mainPc = "mainloop"
    /\ cPc = "setter"
    /\ cPc' = "idle"
    /\ g_triggerArmed' = Setter_Armed
    /\ UNCHANGED <<mainVars, nStreamers, g_triggerOneShot, g_mutex, startArg, expArg,
                   exposure, devInFlight, sPc, dataBacklog, bufVars, closeReason,
                   histVars>>

IsTriggerArmed_ReportsFlag == g_triggerArmed

\* AseqSCPIServer::IsTriggerArmed(): `return g_triggerArmed` is commented out
IsTriggerArmed == TRUE

\* OnCommand, cmd == "EXPOSURE": the line is dispatched with its argument.
OnCommand_Exposure(arg) ==
    /\ CtrlIdle
    /\ expArg' = arg
    /\ cPc' = "exp_lock"
    /\ UNCHANGED <<mainVars, nStreamers, flagVars, g_mutex, startArg, exposure,
                   devInFlight, sPc, dataBacklog, bufVars, closeReason, histVars>>

CtrlLockGuard_Absent == TRUE

\* lock_guard<mutex> lock(g_mutex) in OnCommand blocks until the mutex is free.
CtrlLockGuard == g_mutex = "free"

\* lock_guard<mutex> lock(g_mutex);
Exposure_Lock ==
    /\ mainPc = "mainloop"
    /\ cPc = "exp_lock"
    /\ CtrlLockGuard
    /\ g_mutex' = "main"
    /\ cPc' = "exp_stod"
    /\ UNCHANGED <<mainVars, nStreamers, flagVars, startArg, expArg, exposure,
                   devInFlight, sPc, dataBacklog, bufVars, closeReason, histVars>>

\* stod(args[0]) succeeds and setExposure(exposure, 0, &g_hDevice) is entered.
\* With args empty, args[0] is read past the end of the vector: what is read
\* may happen to parse as a number (taken as 0 here).
Exposure_Call ==
    /\ mainPc = "mainloop"
    /\ cPc = "exp_stod"
    /\ expArg.ok \/ ~expArg.given
    /\ devInFlight' = devInFlight \cup {"main"}
    /\ cPc' = "exp_ret"
    /\ UNCHANGED <<mainVars, nStreamers, flagVars, g_mutex, startArg, expArg, exposure,
                   sPc, dataBacklog, bufVars, closeReason, histVars>>

\* stod(args[0]) throws std::invalid_argument (or the read of args[0] of an
\* empty args faults).  OnCommand has no handler and main calls MainLoop
\* outside any try block; the frames between belong to the external
\* dispatcher: either it catches (unwinding releases the lock_guard and the
\* session goes on) or nothing does and the process is ended.
Exposure_Throw(caught) ==
    /\ mainPc = "mainloop"
    /\ cPc = "exp_stod"
    /\ ~expArg.ok
    /\ IF caught
          THEN /\ g_mutex' = "free"
               /\ cPc' = "idle"
               /\ expArg' = NoArg
               /\ UNCHANGED mainPc
          ELSE /\ mainPc' = "aborted"
               /\ UNCHANGED <<g_mutex, cPc, expArg>>
    /\ UNCHANGED <<calVars, queryVars, listening, nSessions, g_waveformThreadQuit,
                   nStreamers, flagVars, startArg,
                   exposure, devInFlight, sPc, dataBacklog, bufVars, closeReason,
                   histVars>>

\* setExposure returns err; a non-zero code takes the LogError branch.
Exposure_Return(err) ==
    /\ mainPc = "mainloop"
    /\ cPc = "exp_ret"
    /\ devInFlight' = devInFlight \ {"main"}
    /\ exposure' = IF err THEN exposure ELSE FsToTicks(expArg)
    /\ cPc' = IF err THEN "exp_logerr" ELSE "exp_unlock"
    /\ UNCHANGED <<mainVars, nStreamers, flagVars, g_mutex, startArg, expArg,
                   sPc, dataBacklog, bufVars, closeReason, histVars>>

ExposureScopeExit_KeepsLock == g_mutex

\* What leaving the EXPOSURE block does to g_mutex: ~lock_guard() unlocks it
ExposureScopeExit_Mutex == "free"

\* LogError("failed to set exposure, code %d\n", err) if err is not 0, then
\* the end of the EXPOSURE block: ~lock_guard() unlocks; return true;
Exposure_Unlock ==
    /\ mainPc = "mainloop"
    /\ cPc \in {"exp_unlock", "exp_logerr"}
    /\ g_mutex' = ExposureScopeExit_Mutex
    /\ expArg' = NoArg
    /\ cPc' = "idle"
    /\ UNCHANGED <<mainVars, nStreamers, flagVars, startArg, exposure,
                   devInFlight, sPc, dataBacklog, bufVars, closeReason, histVars>>


\* ---------------------------------------------------------------- queries
\* Queries BridgeSCPIServer::OnQuery answers itself (it returns true)
BaseQueries == {"*IDN", "CHANS"}

Queries == BaseQueries \cup {"POINTS", "WAVELENGTHS", "FLATCAL", "IRRCOEFF",
                             "IRRCAL", "BOGUS"}

\* for(int i=0; i<g_numPixels; i++) { snprintf("%.3f,", vec[i]); str += tmp; }
DumpVector(vec, ub) ==
    [k \in 1..(2 * g_numPixels) |->
        IF k % 2 = 1 THEN Fmt3(VecAt(vec, (k - 1) \div 2, ub)) ELSE Ch(",")]

\* The vector a per-pixel query prints
QueryVector(cmd) ==
    CASE cmd = "WAVELENGTHS" -> g_wavelengths
      [] cmd = "FLATCAL" -> g_sensorResponse
      [] cmd = "IRRCAL" -> g_absResponse

\* AseqSCPIServer::OnQuery(line, subject, cmd)
OnQuery(cmd, ub) ==
    /\ CtrlIdle
    /\ lastQuery' = cmd
    /\ queryFault' = (cmd \in {"WAVELENGTHS", "FLATCAL", "IRRCAL"}
                          /\ Len(QueryVector(cmd)) < g_numPixels)
    /\ IF cmd \in {"WAVELENGTHS", "FLATCAL", "IRRCAL"}
              /\ Len(QueryVector(cmd)) < g_numPixels /\ ub.crash
          THEN /\ mainPc' = "aborted"
               /\ replies' = <<>>
          ELSE /\ mainPc' = mainPc
               /\ replies' =
                    CASE cmd \in BaseQueries -> <<Str("base")>>
                      [] cmd = "POINTS" -> <<to_string(g_numPixels)>>
                      [] cmd \in {"WAVELENGTHS", "FLATCAL", "IRRCAL"} ->
                            <<DumpVector(QueryVector(cmd), ub)>>
                      [] cmd = "IRRCOEFF" -> <<to_string(g_absCal)>>
                      [] OTHER -> <<>>
    /\ UNCHANGED <<calVars, listening, nSessions, g_waveformThreadQuit, nStreamers,
                   flagVars, g_mutex, ctrlVars, exposure, devInFlight, sPc,
                   dataBacklog, bufVars, closeReason, histVars>>

\* ------------------------------------------------------- data-plane client
\* A data-plane client connects to the listening g_dataSocket (any time after
\* g_dataSocket.Listen()); it waits in the queue until somebody accepts it.
DataClientConnect ==
    /\ Running
    /\ listening
    /\ dataBacklog < MaxBacklog
    /\ dataBacklog' = dataBacklog + 1
    /\ UNCHANGED <<mainVars, nStreamers, flagVars, g_mutex, ctrlVars, exposure,
                   devInFlight, sPc, bufVars, closeReason, histVars>>

\* ------------------------------------------------ streamer (acquiring loop)
ClosedPc_BackInLoop == "loop"

\* Where the thread is once the thread function has returned
ClosedPc == "done"

\* The thread function returns: the loop was left (or never entered).
StreamerReturn(why) ==
    /\ sPc' = ClosedPc
    /\ nStreamers' = nStreamers - 1
    /\ closeReason' = why

AtDataAccept_OrAfterClose == sPc \in {"accept", "done"}

\* The thread is at its one call of g_dataSocket.Accept(), the first statement
\* of the thread function, before the loop
AtDataAccept == sPc = "accept"

\* Socket client = g_dataSocket.Accept(); if(!client.IsValid()) return;
\* then the two buffers are allocated (uninitialised).
Streamer_Accept(valid) ==
    /\ Running
    /\ AtDataAccept
    /\ dataBacklog > 0
    /\ dataBacklog' = dataBacklog - 1
    /\ IF valid
          THEN /\ sPc' = "loop"
               /\ framePixels' = 0
               /\ frameFlattened' = <<>>
               /\ frameFresh' = FALSE
               /\ UNCHANGED <<nStreamers, closeReason>>
          ELSE /\ StreamerReturn("accept")
               /\ UNCHANGED <<framePixels, frameFlattened, frameFresh>>
    /\ UNCHANGED <<mainVars, flagVars, g_mutex, ctrlVars, exposure, devInFlight,
                   devFrame, wire, histVars>>

\* while(!g_waveformThreadQuit)
Streamer_LoopTest ==
    /\ Running
    /\ sPc = "loop"
    /\ IF g_waveformThreadQuit
          THEN StreamerReturn("quit")
          ELSE /\ sPc' = "check"
               /\ UNCHANGED <<nStreamers, closeReason>>
    /\ UNCHANGED <<mainVars, flagVars, g_mutex, ctrlVars, exposure, devInFlight,
                   dataBacklog, bufVars, histVars>>

\* if(!g_triggerArmed)
Streamer_CheckArmed ==
    /\ Running
    /\ sPc = "check"
    /\ sPc' = IF g_triggerArmed THEN "lock" ELSE "sleep"
    /\ UNCHANGED <<mainVars, nStreamers, flagVars, g_mutex, ctrlVars, exposure,
                   devInFlight, dataBacklog, bufVars, closeReason, histVars>>

\* this_thread::sleep_for(chrono::microseconds(1000)); continue;
Streamer_Sleep ==
    /\ Running
    /\ sPc = "sleep"
    /\ sPc' = "loop"
    /\ UNCHANGED <<mainVars, nStreamers, flagVars, g_mutex, ctrlVars, exposure,
                   devInFlight, dataBacklog, bufVars, closeReason, histVars>>

\* lock_guard<mutex> lock(g_mutex);
Streamer_Lock ==
    /\ Running
    /\ sPc = "lock"
    /\ g_mutex = "free"
    /\ g_mutex' = "stream"
    /\ sPc' = "trigger"
    /\ UNCHANGED <<mainVars, nStreamers, flagVars, ctrlVars, exposure,
                   devInFlight, dataBacklog, bufVars, closeReason, histVars>>

\* triggerAcquisition(&g_hDevice) is entered
Streamer_TriggerCall ==
    /\ Running
    /\ sPc = "trigger"
    /\ devInFlight' = devInFlight \cup {"stream"}
    /\ sPc' = "trigger_ret"
    /\ UNCHANGED <<mainVars, nStreamers, flagVars, g_mutex, ctrlVars, exposure,
                   dataBacklog, bufVars, closeReason, histVars>>

AfterTrigger_SkipsFetchOnError(err) == IF err THEN "oneshot" ELSE "getframe"

\* Where the thread goes when triggerAcquisition has returned err: the if
\* around it has only a LogError in its body, the next statement is getFrame
AfterTrigger_Pc(err) == "getframe"

\* triggerAcquisition returns err; a non-zero code is only logged.
Streamer_TriggerReturn(err) ==
    /\ Running
    /\ sPc = "trigger_ret"
    /\ devInFlight' = devInFlight \ {"stream"}
    /\ triggerErr' = err
    /\ sPc' = AfterTrigger_Pc(err)
    /\ UNCHANGED <<mainVars, nStreamers, flagVars, g_mutex, ctrlVars, exposure,
                   dataBacklog, bufVars, closeReason, startKind, fetchesSince>>

\* getFrame(framePixels, 0xffff, &g_hDevice) is entered
Streamer_GetFrameCall ==
    /\ Running
    /\ sPc = "getframe"
    /\ devInFlight' = devInFlight \cup {"stream"}
    /\ sPc' = "getframe_ret"
    /\ UNCHANGED <<mainVars, nStreamers, flagVars, g_mutex, ctrlVars, exposure,
                   dataBacklog, bufVars, closeReason, histVars>>

\* getFrame returns 0: the buffer holds the device's next frame.
Streamer_GetFrameOk ==
    /\ Running
    /\ sPc = "getframe_ret"
    /\ devInFlight' = devInFlight \ {"stream"}
    /\ devFrame' = NextFrame(devFrame)
    /\ framePixels' = NextFrame(devFrame)
    /\ fetchesSince' = IF fetchesSince < 2 THEN fetchesSince + 1 ELSE 2
    /\ frameFresh' = TRUE
    /\ sPc' = "oneshot"
    /\ UNCHANGED <<mainVars, nStreamers, flagVars, g_mutex, ctrlVars, exposure,
                   dataBacklog, frameFlattened, wire, closeReason, startKind, triggerErr>>

GetFrameFail_KeepsLock == g_mutex

\* the mutex after `break` leaves the lock_guard's block: ~lock_guard() unlocks
GetFrameFail_Mutex == "free"

\* getFrame returns non-zero: LogError; break;  (then the cleanup and return)
Streamer_GetFrameFail ==
    /\ Running
    /\ sPc = "getframe_ret"
    /\ devInFlight' = devInFlight \ {"stream"}
    /\ g_mutex' = GetFrameFail_Mutex
    /\ StreamerReturn("fetch")
    /\ triggerErr' = FALSE
    /\ UNCHANGED <<mainVars, flagVars, ctrlVars, exposure,
                   dataBacklog, bufVars, startKind, fetchesSince>>

OneShot_AlwaysDisarms == FALSE

\* The armed flag after the statement that follows a successful getFrame
OneShot_Armed == IF g_triggerOneShot THEN FALSE ELSE g_triggerArmed

\* if(g_triggerOneShot) g_triggerArmed = false;
Streamer_OneShot ==
    /\ Running
    /\ sPc = "oneshot"
    /\ g_triggerArmed' = OneShot_Armed
    /\ sPc' = "unlock"
    /\ UNCHANGED <<mainVars, nStreamers, g_triggerOneShot, g_mutex, ctrlVars, exposure,
                   devInFlight, dataBacklog, bufVars, closeReason, histVars>>

AcquireScopeExit_KeepsLock == g_mutex

\* What the end of the "Acquire data" block does to g_mutex: the block closes
\* before the flatten loop and the send, and ~lock_guard() unlocks
AcquireScopeExit_Mutex == "free"

\* end of the "Acquire data" block: ~lock_guard() unlocks
Streamer_Unlock ==
    /\ Running
    /\ sPc = "unlock"
    /\ g_mutex' = AcquireScopeExit_Mutex
    /\ sPc' = "flatten"
    /\ UNCHANGED <<mainVars, nStreamers, flagVars, ctrlVars, exposure,
                   devInFlight, dataBacklog, bufVars, closeReason, histVars>>

FlattenIndex_OffByOne(i) == i + DummyPixels - 1

\* the raw index read for output pixel i: framePixels[i+32]
FlattenIndex(i) == i + DummyPixels

\* for(int i=0; i<g_numPixels; i++) frameFlattened[i] = framePixels[i+32];
\* (frameFlattened[i] is element i+1 of the sequence)
Flatten(n) ==
    [k \in 1..g_numPixels |-> U16ToFloat(FramePixelAt(n, FlattenIndex(k - 1)))]

Streamer_Flatten ==
    /\ Running
    /\ sPc = "flatten"
    /\ frameFlattened' = Flatten(framePixels)
    /\ sPc' = "send"
    /\ UNCHANGED <<mainVars, nStreamers, flagVars, g_mutex, ctrlVars, exposure,
                   devInFlight, dataBacklog, devFrame, framePixels, wire,
                   frameFresh, closeReason, histVars>>

AfterSend_SendsAgain == "send"

\* Where the thread goes after a successful send: the send is the last
\* statement of the loop body, so back to the loop condition
AfterSend_Pc == "loop"

\* client.SendLooped((uint8_t*)frameFlattened, g_numPixels * sizeof(float)) is true:
\* the whole buffer reached the client.
Streamer_SendOk ==
    /\ Running
    /\ sPc = "send"
    /\ wire' = [seq |-> 1 - wire.seq,
                data |-> frameFlattened,
                bytes |-> g_numPixels * SizeofFloat,
                frame |-> framePixels]
    /\ frameFresh' = FALSE
    /\ sPc' = AfterSend_Pc
    /\ triggerErr' = FALSE
    /\ UNCHANGED <<mainVars, nStreamers, flagVars, g_mutex, ctrlVars, exposure,
                   devInFlight, dataBacklog, devFrame, framePixels, frameFlattened,
                   closeReason, startKind, fetchesSince>>

SendFail_Disarms == <<FALSE, g_triggerOneShot>>

\* armed / oneShot after a failed send: the streamer only breaks out of its loop
SendFail_Flags == <<g_triggerArmed, g_triggerOneShot>>

\* SendLooped is false (client gone or partial write): break;
Streamer_SendFail ==
    /\ Running
    /\ sPc = "send"
    /\ StreamerReturn("send")
    /\ g_triggerArmed' = SendFail_Flags[1]
    /\ g_triggerOneShot' = SendFail_Flags[2]
    /\ triggerErr' = FALSE
    /\ UNCHANGED <<mainVars, g_mutex, ctrlVars, exposure,
                   devInFlight, dataBacklog, bufVars, startKind, fetchesSince>>


\* -------------------------------- streamer as in WaveformServerThread.cpp
\* Socket client = g_dataSocket.Accept(); if(!client.IsValid()) return;
Stub_Accept(valid) ==
    /\ Running
    /\ sPc = "accept"
    /\ dataBacklog > 0
    /\ dataBacklog' = dataBacklog - 1
    /\ IF valid
          THEN /\ sPc' = "loop"
               /\ UNCHANGED <<nStreamers, closeReason>>
          ELSE StreamerReturn("accept")
    /\ UNCHANGED <<mainVars, flagVars, g_mutex, ctrlVars, exposure, devInFlight,
                   bufVars, histVars>>

\* while(!g_waveformThreadQuit)  (the loop body is commented out up to usleep)
Stub_LoopTest ==
    /\ Running
    /\ sPc = "loop"
    /\ IF g_waveformThreadQuit
          THEN StreamerReturn("quit")
          ELSE /\ sPc' = "sleep"
               /\ UNCHANGED <<nStreamers, closeReason>>
    /\ UNCHANGED <<mainVars, flagVars, g_mutex, ctrlVars, exposure, devInFlight,
                   dataBacklog, bufVars, histVars>>

\* usleep(5000);
Stub_Usleep ==
    /\ Running
    /\ sPc = "sleep"
    /\ sPc' = "loop"
    /\ UNCHANGED <<mainVars, nStreamers, flagVars, g_mutex, ctrlVars, exposure,
                   devInFlight, dataBacklog, bufVars, closeReason, histVars>>

\* --------------------------------------------------------------- the system
\* main() and the control session it runs, with the data-plane client
MainNext ==
    \/ SigInt
    \/ MainAccept
    \/ MainAcceptInvalid
    \/ MainConstruct
    \/ MainSpawn
    \/ MainLoopReturn
    \/ MainSetQuit
    \/ MainJoin
    \/ MainClearQuit
    \/ \E oneShot \in BOOLEAN : AcquisitionStart_Arm(oneShot)
    \/ AcquisitionStart_Mode
    \/ AcquisitionForceTrigger
    \/ AcquisitionStop
    \/ \E op \in SetterOps : Setter_Call(op)
    \/ Setter_Return
    \/ \E arg \in ExposureArgs : OnCommand_Exposure(arg)
    \/ Exposure_Lock
    \/ Exposure_Call
    \/ \E caught \in BOOLEAN : Exposure_Throw(caught)
    \/ \E err \in BOOLEAN : Exposure_Return(err)
    \/ Exposure_Unlock
    \/ DataClientConnect

StreamerNext ==
    \/ \E valid \in BOOLEAN : Streamer_Accept(valid)
    \/ Streamer_LoopTest
    \/ Streamer_CheckArmed
    \/ Streamer_Sleep
    \/ Streamer_Lock
    \/ Streamer_TriggerCall
    \/ \E err \in BOOLEAN : Streamer_TriggerReturn(err)
    \/ Streamer_GetFrameCall
    \/ Streamer_GetFrameOk
    \/ Streamer_GetFrameFail
    \/ Streamer_OneShot
    \/ Streamer_Unlock
    \/ Streamer_Flatten
    \/ Streamer_SendOk
    \/ Streamer_SendFail

StubNext ==
    \/ \E valid \in BOOLEAN : Stub_Accept(valid)
    \/ Stub_LoopTest
    \/ Stub_Usleep

Next == MainNext \/ StreamerNext

\* Startup and the queries of a control session; the streamer's steps do not
\* touch what these read or write and are left out.
NextCal ==
    \/ \E ok \in BOOLEAN : Startup_DeviceCall(ok)
    \/ \E flashOk \in BOOLEAN, ub \in UBOutcomes : ReadCalData(flashOk, ub)
    \/ Startup_Listen
    \/ MainAccept
    \/ MainConstruct
    \/ MainSpawn
    \/ \E cmd \in Queries, ub \in UBOutcomes : OnQuery(cmd, ub)

NextStub == MainNext \/ StubNext

\* Startup and queries, with ReadCalData() callable more than once
NextReload == NextCal \/ CallReadCalDataAgain

\* Steps main() takes on its own (Accept and MainLoop's return wait for the
\* control client and are left to it).
MainProgress ==
    \/ MainConstruct
    \/ MainSpawn
    \/ MainSetQuit
    \/ MainJoin
    \/ MainClearQuit
    \/ AcquisitionStart_Mode
    \/ Setter_Return
    \/ Exposure_Call
    \/ \E caught \in BOOLEAN : Exposure_Throw(caught)
    \/ \E err \in BOOLEAN : Exposure_Return(err)
    \/ Exposure_Unlock

\* Steps of the streamer thread other than taking the mutex.
StreamerProgress ==
    \/ \E valid \in BOOLEAN : Streamer_Accept(valid)
    \/ Streamer_LoopTest
    \/ Streamer_CheckArmed
    \/ Streamer_Sleep
    \/ Streamer_TriggerCall
    \/ \E err \in BOOLEAN : Streamer_TriggerReturn(err)
    \/ Streamer_GetFrameCall
    \/ Streamer_GetFrameOk
    \/ Streamer_GetFrameFail
    \/ Streamer_OneShot
    \/ Streamer_Unlock
    \/ Streamer_Flatten
    \/ Streamer_SendOk
    \/ Streamer_SendFail

\* Both threads are scheduled, device calls and sends return, and a thread
\* blocked on the mutex gets it when it is free again and again.
Fairness ==
    /\ WF_vars(MainProgress)
    /\ WF_vars(StreamerProgress)
    /\ SF_vars(Streamer_Lock)
    /\ SF_vars(Exposure_Lock)

FairnessStub ==
    /\ WF_vars(MainProgress)
    /\ WF_vars(StubNext)
    /\ SF_vars(Exposure_Lock)

Spec == Init /\ [][Next]_vars

SpecStub == Init /\ [][NextStub]_vars

SpecCal == InitCal /\ [][NextCal]_vars

SpecReload == InitCal /\ [][NextReload]_vars

FairSpec == Spec /\ Fairness

FairSpecStub == SpecStub /\ FairnessStub

\* ------------------------------------------------------------------ claims
\* The streamer is inside triggerAcquisition or getFrame.
StreamerInDeviceCall == "stream" \in devInFlight

\* The streamer is between entering triggerAcquisition and getFrame's return.
AcquisitionInFlight == sPc \in {"trigger_ret", "getframe", "getframe_ret"}

\* C1: whenever the armed flag is false the streamer performs no
\* triggerAcquisition and no getFrame call: in every reachable state in which
\* the streamer is triggering or fetching, armed is true.
C1_NoDeviceCallWhileDisarmed == StreamerInDeviceCall => g_triggerArmed

\* C2: after a one-shot start the streamer performs exactly one successful
\* fetch and armed is then false with no stop issued; after a repeating start
\* armed stays true across every successful fetch until a stop.
C2_StartModes ==
    /\ startKind = "oneshot" => fetchesSince <= 1
    /\ (startKind = "oneshot" /\ cPc = "idle" /\ fetchesSince = 1 /\ sPc # "oneshot")
          => ~g_triggerArmed
    /\ startKind = "repeat" => g_triggerArmed

C4_OneSessionOneStreamer ==
    /\ nSessions <= 1
    /\ nStreamers <= 1
    /\ mainPc \in {"accept", "construct"} =>
          nSessions = 0 /\ nStreamers = 0 /\ sPc = "none" /\ ~g_waveformThreadQuit
    /\ mainPc = "spawn" => nStreamers = 0 /\ sPc = "none" /\ ~g_waveformThreadQuit
    /\ mainPc = "mainloop" => ~g_waveformThreadQuit
    /\ g_waveformThreadQuit => mainPc \in {"join", "clearquit", "exited"}
    /\ mainPc = "clearquit" => nStreamers = 0

\* A second control connection is being set up after an earlier session's
\* streamer was told to quit and was joined.
C4_Witness == mainPc = "spawn" /\ closeReason = "quit"

\* The streamer thread is inside its while loop.
StreamerInLoop == Running /\ sPc \notin {"none", "accept", "done"}

\* C5: once the control session has ended and main has set the quit signal,
\* the streamer exits and main returns to accepting the next control
\* connection (or the process is shut down), whatever the streamer was doing.
C5_QuitRetiresStreamer ==
    (mainPc = "join" /\ g_waveformThreadQuit)
        ~> (mainPc \in {"accept", "exited"})

\* C6: with a data client connected and the streamer in its loop, an armed
\* trigger leads to a fetched frame, a fetched frame is sent (unless the
\* streamer closes), and while armed stays true frames are sent again and again.
C6_ArmedLeadsToFrames ==
    /\ (StreamerInLoop /\ g_triggerArmed)
          ~> (sPc = "oneshot" \/ ~StreamerInLoop \/ ~g_triggerArmed)
    /\ (sPc = "oneshot") ~> (sPc = "send" \/ ~Running)
    /\ (sPc = "send") ~> (sPc = "loop" \/ ~StreamerInLoop)
    /\ (<>[](StreamerInLoop /\ g_triggerArmed)) => []<>(sPc = "send")

\* What the control session owns and what a closing streamer must leave alone.
ControlState == <<mainPc, nSessions, cPc, startArg, expArg, g_waveformThreadQuit,
                  g_triggerArmed, g_triggerOneShot, exposure>>

\* The streamer is gone and holds neither the mutex nor the device.
StreamerLeftClean ==
    /\ sPc \in {"done", "none"}
    /\ g_mutex # "stream"
    /\ "stream" \notin devInFlight

\* C7: when a send fails, only the streamer closes: the control session's
\* position and the armed, oneShot and exposure values are unchanged by the
\* closure, and the closed streamer holds nothing the session needs, so a
\* command waiting for the mutex can go on.
C7_SendFailClosesOnlyStreamer ==
    [][ /\ (sPc = "send" /\ sPc' = "done") =>
              (closeReason' = "send" /\ UNCHANGED ControlState)
        /\ (closeReason = "send")' => StreamerLeftClean'
        /\ (closeReason = "send" /\ mainPc = "mainloop" /\ cPc = "exp_lock")' =>
              (g_mutex = "free")' ]_vars

\* The data client went away in repeating mode while armed; afterwards the
\* session is carrying out an EXPOSURE command.
C7_Witness ==
    /\ closeReason = "send"
    /\ sPc = "done"
    /\ g_triggerArmed
    /\ mainPc = "mainloop"
    /\ cPc = "exp_unlock"

\* C8: when getFrame fails the streamer closes: nothing is sent for that
\* acquisition, it does no more device I/O, the mutex is released on the way
\* out and the control session is untouched, so an EXPOSURE command that
\* wants the mutex afterwards finds it free.
C8_FetchFailClosesStreamer ==
    [][ /\ (sPc = "getframe_ret" /\ sPc' = "done") =>
              (closeReason' = "fetch" /\ wire' = wire /\ UNCHANGED ControlState)
        /\ (closeReason = "fetch")' => (StreamerLeftClean' /\ wire' = wire)
        /\ (closeReason = "fetch" /\ mainPc = "mainloop" /\ cPc = "exp_lock")' =>
              (g_mutex = "free")' ]_vars

\* After a failed fetch an EXPOSURE command has taken the mutex and changed
\* the device's exposure.
C8_Witness ==
    /\ closeReason = "fetch"
    /\ mainPc = "mainloop"
    /\ cPc = "exp_unlock"
    /\ g_mutex = "main"
    /\ exposure # InitialExposure

\* C9: every frame sent is exactly g_numPixels floats (g_numPixels * 4 bytes,
\* nothing else), value i being raw sample i + 32 of the frame fetched in the
\* same cycle; a send always carries the frame fetched since the previous
\* send; index i + 32 lies inside the raw buffer.
C9_FrameOnWire ==
    [][ /\ (wire.frame # 0)' =>
              /\ Len(wire.data)' = g_numPixels
              /\ wire.bytes' = g_numPixels * 4
              /\ \A i \in 0..(g_numPixels - 1) :
                    /\ i + 32 < framesize
                    /\ wire.data'[i + 1] = [f32 |-> Raw(wire.frame', i + 32)]
        /\ (wire' # wire) =>
              /\ sPc = "send"
              /\ frameFresh /\ ~frameFresh'
              /\ wire.frame' = framePixels
              /\ framePixels = devFrame
        /\ RealNumPixels - 1 + 32 < framesize ]_vars

\* A second frame has been sent by the same streamer.
C9_Witness == wire.frame # 0 /\ wire.seq = 0 /\ sPc = "loop" /\ closeReason = "none"


\* A per-pixel query has been answered
VectorQueryAnswered == lastQuery \in {"WAVELENGTHS", "FLATCAL", "IRRCAL"}

\* C10: once a calibration has been loaded, each of WAVELENGTHS?, FLATCAL? and
\* IRRCAL? is answered by one reply of exactly g_numPixels comma-terminated
\* tokens, token i being the "%.3f" text of the i-th stored entry of the
\* vector the query prints.
C10_VectorQueryReplies ==
    (VectorQueryAnswered /\ ~calFault) =>
        /\ Len(replies) = 1
        /\ Len(replies[1]) = 2 * g_numPixels
        /\ \A i \in 1..g_numPixels :
              /\ i <= Len(QueryVector(lastQuery))
              /\ replies[1][2 * i - 1] = Fmt3(QueryVector(lastQuery)[i])
              /\ replies[1][2 * i] = Ch(",")


\* The header of the calibration file carries the flag c.Y
BlobHasAbsCal ==
    HasAbsCal(explode(LineAt(explode(blob, NL), 0, [crash |-> FALSE, v |-> 0]), SP),
              [crash |-> FALSE, v |-> 0])

\* C11: with a calibration file that carries no irradiance table, loaded
\* without error, the irradiance vector is empty and the coefficient zero;
\* IRRCOEFF? replies zero, IRRCAL? replies nothing or an empty line, and
\* neither reads an element outside the stored vector nor ends the process.
C11_AbsentIrradianceQueries ==
    (listening /\ ~calFault /\ ~BlobHasAbsCal) =>
        /\ g_absResponse = <<>>
        /\ g_absCal = 0
        /\ lastQuery = "IRRCOEFF" => (replies = <<to_string(0)>> /\ ~queryFault)
        /\ lastQuery = "IRRCAL" =>
              /\ ~queryFault
              /\ mainPc # "aborted"
              /\ replies \in {<<>>, << <<>> >>}


\* The step that ends an EXPOSURE command whose argument is not a number or is
\* missing
MalformedExposureEnds ==
    /\ cPc = "exp_stod"
    /\ ~expArg.ok
    /\ cPc' # cPc \/ mainPc' = "aborted"

\* C12: an EXPOSURE command with a malformed or missing argument fails only
\* that command: the session is back at reading the next line, the lock is
\* free, the device exposure is what it was and the streamer is where it was,
\* still running.
C12_MalformedExposureFailsAlone ==
    [][ MalformedExposureEnds =>
            /\ mainPc' = "mainloop"
            /\ cPc' = "idle"
            /\ g_mutex' = "free"
            /\ exposure' = exposure
            /\ devInFlight' = devInFlight
            /\ sPc' = sPc
            /\ Running' ]_vars


\* C13: when setExposure returns a device error, from that return to the end
\* of the command no reply is sent, the flags and the device exposure stay as
\* they were, and the command ends with the lock free and the session back at
\* reading the next line.
C13_ExposureDeviceError ==
    [][ (cPc = "exp_logerr" \/ cPc' = "exp_logerr") =>
            /\ replies' = replies
            /\ flagVars' = flagVars
            /\ exposure' = exposure
            /\ g_mutex = "main"
            /\ (cPc = "exp_logerr" /\ cPc' # cPc) =>
                  /\ cPc' = "idle"
                  /\ g_mutex' = "free"
                  /\ mainPc' = "mainloop" ]_vars

\* setExposure has failed while the armed streamer waits for the lock.
C13_Witness == cPc = "exp_logerr" /\ g_triggerArmed /\ sPc = "lock"


\* The queries AseqSCPIServer::OnQuery answers itself
DeviceQueries == {"POINTS", "WAVELENGTHS", "FLATCAL", "IRRCOEFF", "IRRCAL"}

\* Everything but the record of the last query and its replies
stateBesidesQueries ==
    <<calVars, listening, mainPc, nSessions, nStreamers, g_waveformThreadQuit,
      flagVars, g_mutex, ctrlVars, exposure, devInFlight, sPc, dataBacklog,
      bufVars, closeReason, histVars>>

\* C14: a query line gets at most one reply: a query the base dispatcher
\* handles gets the base dispatcher's reply and nothing from the
\* device-specific handler; POINTS, WAVELENGTHS, FLATCAL, IRRCOEFF and IRRCAL
\* get exactly one reply; any other query gets none and changes no state.
C14_OneReplyPerQuery ==
    [][ (lastQuery' # lastQuery) =>
            /\ Len(replies') <= 1
            /\ lastQuery' \in BaseQueries => replies' = <<Str("base")>>
            /\ lastQuery' \in DeviceQueries => Len(replies') = 1
            /\ lastQuery' \notin (BaseQueries \cup DeviceQueries) =>
                  /\ replies' = <<>>
                  /\ stateBesidesQueries' = stateBesidesQueries ]_vars


\* C15: in every reachable state, whatever start, force-trigger and stop
\* commands and one-shot completions came before, IsTriggerArmed reports true.
C15_ArmedReportAlwaysTrue == IsTriggerArmed = TRUE

\* A one-shot acquisition has completed and cleared the armed flag, and the
\* report is still true.
C15_Witness ==
    /\ startKind = "oneshot"
    /\ fetchesSince = 1
    /\ ~g_triggerArmed
    /\ IsTriggerArmed


\* The control session enters or leaves one of the configuration operations
SetterStep == cPc' # cPc /\ (cPc = "setter" \/ cPc' = "setter")

\* C16: the channel-enable, coupling, range, offset, threshold, hysteresis,
\* sample-rate, sample-depth, trigger-delay, trigger-source, trigger-level,
\* trigger-type and edge-polarity operations are accepted (the session is
\* back at reading the next line) and leave armed, oneShot, the exposure and
\* the calibration vectors unchanged and make no device call.
C16_SettersAreNoOps ==
    [][ SetterStep =>
            /\ flagVars' = flagVars
            /\ exposure' = exposure
            /\ calVars' = calVars
            /\ devInFlight' = devInFlight
            /\ g_mutex' = g_mutex
            /\ mainPc' = mainPc
            /\ cPc = "setter" => cPc' = "idle" ]_vars

\* A configuration operation runs while the armed streamer is inside a device
\* call.
C16_Witness == cPc = "setter" /\ g_triggerArmed /\ "stream" \in devInFlight


\* A control connection has been accepted at some time
ControlAccepted == nSessions > 0 \/ mainPc \in {"construct", "spawn", "mainloop"}

\* C17: a failed startup step (device connect, calibration read or parse,
\* setFrameFormat, setExposure, setAcquisitionParameters, setExternalTrigger)
\* ends the process with status 1 before it listens or accepts; the sockets
\* listen and a control connection is accepted only after every step has
\* succeeded.
C17_StartupFailuresAreFatal ==
    /\ mainPc = "exit1" => (~listening /\ ~ControlAccepted /\ nStreamers = 0)
    /\ calFault => mainPc = "exit1"
    /\ (listening \/ ControlAccepted) =>
          /\ ~calFault
          /\ Len(g_wavelengths) = g_numPixels
          /\ Len(g_sensorResponse) = g_numPixels
          /\ exposure = InitialExposure
          /\ devFrame = 1


\* The calibration file has every line and header field ReadCalData indexes
BlobWellFormed ==
    /\ Len(explode(blob, NL)) >= 1
    /\ ReadCalIndexesExist(explode(blob, NL))

\* ReadCalData has returned to main()
CalLoadReturned == mainPc \notin {"connect", "readcal", "exit1", "aborted"}

\* C18: the loader never indexes a line or header field that does not exist,
\* and it returns normally only for a calibration file that has them all: any
\* other file ends in a format failure.
C18_CalFormatValidated ==
    /\ ~calFault
    /\ CalLoadReturned => BlobWellFormed


\* What one load of the calibration file leaves in the two vectors
OneLoad ==
    <<ReadWavelengths(explode(blob, NL), [crash |-> FALSE, v |-> 0]),
      ReadSensorResponse(explode(blob, NL), [crash |-> FALSE, v |-> 0])>>

\* C19: however many times the calibration load has run on the same file,
\* the wavelength and sensor-response vectors are what one load produces:
\* same length, same values.
C19_LoadIdempotent ==
    (CalLoadReturned /\ ~calFault) =>
        <<g_wavelengths, g_sensorResponse>> = OneLoad


\* The streamer thread exists and has not returned
StreamerAlive == sPc \notin {"none", "done"}

\* C20: a data-plane connection is accepted only by a streamer at its first
\* statement, which it leaves for good by that accept; a streamer gets to
\* that statement only by being spawned; and a streamer is alive only while
\* its control session object exists.  So a session serves at most one data
\* client and never a replacement.
C20_OneDataClientPerStreamer ==
    [][ /\ (dataBacklog' < dataBacklog) =>
              (sPc = "accept" /\ sPc' \in {"loop", "done"})
        /\ (sPc' = "accept" /\ sPc # "accept") =>
              (mainPc = "spawn" /\ mainPc' = "mainloop" /\ ~StreamerAlive)
        /\ StreamerAlive' => nSessions' = 1 ]_vars

\* The data client has gone and the streamer with it; another data client
\* waits in the listen queue while the control session goes on.
C20_Witness ==
    /\ closeReason = "send"
    /\ sPc = "done"
    /\ dataBacklog > 0
    /\ mainPc = "mainloop"


\* A start command has completed, no stop or force-trigger came after it, and
\* no frame has been fetched since it was issued
StartPending == startKind # "none" /\ cPc # "start2" /\ fetchesSince = 0

\* C21: once a start command has completed, armed stays true until a frame is
\* fetched after it (or a stop command): the disarm of an earlier one-shot
\* acquisition does not cancel it.
C21_StartNotCancelled == StartPending => g_triggerArmed


\* A step of the control session (not of the streamer) that changes armed or
\* oneShot
ControlWritesFlag == flagVars' # flagVars /\ sPc' = sPc

\* C22: every write of armed or oneShot made by start, force-trigger and stop
\* is made while the control thread holds the mutex, so that no such write
\* falls inside the streamer's critical section.
C22_FlagWritesUnderLock ==
    [][ ControlWritesFlag => (g_mutex = "main" /\ g_mutex' # "stream") ]_vars


\* The streamer's positions inside the "Acquire data" block, in program order
AcquireOrder == <<"trigger", "trigger_ret", "getframe", "getframe_ret",
                  "oneshot", "unlock">>

AcquireRank(pc) == CHOOSE k \in 1..Len(AcquireOrder) : AcquireOrder[k] = pc

InAcquireBlock(pc) == \E k \in 1..Len(AcquireOrder) : AcquireOrder[k] = pc

\* C23: the streamer holds the mutex exactly while it is inside the acquire
\* block, so never while polling armed, sleeping, flattening or sending; a
\* hold begins just before the trigger, moves only forward through one
\* triggerAcquisition and one getFrame, and ends after the fetch.
C23_LockHeldOnlyWhileAcquiring ==
    /\ [](g_mutex = "stream" <=> InAcquireBlock(sPc))
    /\ [][ /\ (g_mutex # "stream" /\ g_mutex' = "stream") => sPc' = "trigger"
           /\ (g_mutex = "stream" /\ g_mutex' = "stream" /\ sPc' # sPc) =>
                 AcquireRank(sPc') = AcquireRank(sPc) + 1
           /\ (g_mutex = "stream" /\ g_mutex' # "stream") =>
                 /\ sPc \in {"getframe_ret", "unlock"}
                 /\ g_mutex' = "free" ]_vars

\* An EXPOSURE command holds the lock while the streamer is in its send.
C23_Witness == sPc = "send" /\ g_mutex = "main" /\ cPc = "exp_ret"


\* A step of AcquisitionStart (its first statement) or AcquisitionForceTrigger
StartOrForceStep ==
    /\ CtrlIdle
    /\ sPc' = sPc
    /\ \/ cPc' = "start2" /\ startKind' \in {"oneshot", "repeat"}
       \/ cPc' = cPc /\ startKind' = "none"

\* A step of AcquisitionStop
StopStep == CtrlIdle /\ sPc' = sPc /\ cPc' = cPc /\ startKind' = "none"

\* The streamer's statement after a successful getFrame, with oneShot set
OneShotDisarmStep ==
    /\ sPc = "oneshot" /\ sPc' = "unlock"
    /\ cPc' = cPc
    /\ g_triggerOneShot
    /\ frameFresh

\* C24: the armed flag rises only in a start or force-trigger step and falls
\* only in a stop step or in the streamer's one-shot step after a successful
\* fetch; every other step leaves it as it is.
C24_ArmedWriters ==
    [][ /\ (~g_triggerArmed /\ g_triggerArmed') => StartOrForceStep
        /\ (g_triggerArmed /\ ~g_triggerArmed') =>
              (StopStep \/ OneShotDisarmStep) ]_vars

\* The streamer has cleared armed after the first fetch of a one-shot start.
C24_Witness ==
    /\ sPc = "unlock"
    /\ ~g_triggerArmed /\ g_triggerOneShot
    /\ startKind = "oneshot" /\ fetchesSince = 1


\* The streamer's state, from its position in the thread function
StreamerState(pc) ==
    CASE pc = "none" -> "NoThread"
      [] pc = "accept" -> "Idle"
      [] pc \in {"loop", "check", "sleep"} -> "WaitArmed"
      [] pc \in {"lock", "trigger", "trigger_ret", "getframe", "getframe_ret"} ->
            "Acquiring"
      [] pc \in {"oneshot", "unlock", "flatten", "send"} -> "Streaming"
      [] pc = "done" -> "Closed"

\* C25: between its states the streamer moves only WaitArmed -> Acquiring
\* with armed seen true, Acquiring -> Streaming on a successful fetch,
\* Streaming -> WaitArmed on a successful send, and to Closed on the quit
\* flag, a fetch error or a send failure; a closed streamer stays closed
\* until it is joined and does nothing to the device, the wire or armed.
C25_StreamerTransitions ==
    /\ [](StreamerState(sPc) = "Closed" =>
              "stream" \notin devInFlight /\ g_mutex # "stream")
    /\ [][ LET from == StreamerState(sPc)
               to == StreamerState(sPc')
           IN  /\ (from = "WaitArmed" /\ to # from) =>
                     \/ to = "Acquiring" /\ sPc' = "lock" /\ g_triggerArmed
                     \/ to = "Closed" /\ closeReason' = "quit"
                                      /\ g_waveformThreadQuit
               /\ (from = "Acquiring" /\ to # from) =>
                     \/ to = "Streaming" /\ sPc = "getframe_ret" /\ frameFresh'
                     \/ to = "Closed" /\ sPc = "getframe_ret"
                                      /\ closeReason' = "fetch"
               /\ (from = "Streaming" /\ to # from) =>
                     \/ to = "WaitArmed" /\ sPc = "send" /\ wire' # wire
                     \/ to = "Closed" /\ sPc = "send" /\ closeReason' = "send"
                                      /\ wire' = wire
               /\ from = "Closed" =>
                     /\ to \in {"Closed", "NoThread"}
                     /\ to = "NoThread" => mainPc' # mainPc
                     /\ devInFlight' \subseteq devInFlight \cup {"main"}
                     /\ wire' = wire
                     /\ g_triggerArmed' # g_triggerArmed =>
                           (StartOrForceStep \/ StopStep) ]_vars

\* A streamer that closed on a fetch error sits closed while the session goes
\* on and the flag is still armed.
C25_Witness ==
    /\ sPc = "done" /\ closeReason = "fetch"
    /\ mainPc = "mainloop" /\ g_triggerArmed


\* The line ends, header flag and the two tables the calibration file in
\* flash was written with
BlobContent ==
    CHOOSE t \in [e : {"lf", "crlf"}, flag : {"c.Y", "c.N"},
                  wl : [1..g_numPixels -> WlVals],
                  resp : [1..g_numPixels -> RespVals]] :
        Blob(t.e, t.flag, t.wl, t.resp) = blob

\* C26: once the calibration load has returned, the wavelength and the
\* sensor-response vector have g_numPixels entries each, entry i being entry
\* i of the file's wavelength table and of its response table, whatever the
\* line ends of the file (an empty or a "\r" separator line).
C26_CalTablesLoaded ==
    CalLoadReturned =>
        /\ Len(g_wavelengths) = g_numPixels
        /\ Len(g_sensorResponse) = g_numPixels
        /\ \A i \in 1..g_numPixels :
              /\ g_wavelengths[i] = BlobContent.wl[i]
              /\ g_sensorResponse[i] = BlobContent.resp[i]


\* The streamer issues triggerAcquisition
TriggerStep == sPc = "trigger" /\ sPc' = "trigger_ret"

\* getFrame returns 0 to the streamer
FetchOkStep == sPc = "getframe_ret" /\ sPc' = "oneshot"

\* SendLooped has put a frame on the wire
SendStep == sPc = "send" /\ wire' # wire

\* C27: a streamer's events repeat as trigger, fetch, send: a trigger or a
\* fetch happens only when no fetched frame is waiting to be sent, a send
\* happens only for a frame fetched since the previous send and carries that
\* frame, and after the send the frame is no longer waiting.
C27_TriggerFetchSendOrder ==
    /\ [](StreamerState(sPc) \in {"WaitArmed", "Acquiring"} => ~frameFresh)
    /\ [](StreamerState(sPc) = "Streaming" => frameFresh)
    /\ [][ /\ TriggerStep => ~frameFresh /\ ~frameFresh'
           /\ FetchOkStep => ~frameFresh /\ frameFresh'
                                /\ framePixels' = devFrame'
           /\ SendStep => /\ frameFresh /\ ~frameFresh'
                          /\ wire'.frame = framePixels
                          /\ StreamerState(sPc') = "WaitArmed"
           /\ (wire' # wire) => SendStep ]_vars

\* A second frame has been fetched after the first one went out on the wire.
C27_Witness ==
    /\ sPc = "send" /\ frameFresh
    /\ wire.frame # 0 /\ wire.frame # framePixels


\* C28: when triggerAcquisition fails the streamer stays open and goes on,
\* in the same lock hold, to getFrame; in the Acquiring state only a failed
\* getFrame closes it; and an iteration whose trigger failed but whose fetch
\* succeeded runs the one-shot disarm, the flatten and the send of that frame
\* like any other.
C28_FailedTriggerStillFetches ==
    /\ [](triggerErr => sPc \in {"getframe", "getframe_ret", "oneshot",
                                 "unlock", "flatten", "send"})
    /\ [][ /\ (sPc = "trigger_ret" /\ sPc' # sPc) =>
                 /\ sPc' = "getframe"
                 /\ g_mutex = "stream" /\ g_mutex' = "stream"
                 /\ closeReason' = "none" /\ nStreamers' = nStreamers
           /\ (triggerErr /\ sPc' # sPc) =>
                 CASE sPc = "getframe" ->
                         /\ sPc' = "getframe_ret"
                         /\ g_mutex = "stream" /\ g_mutex' = "stream"
                         /\ "stream" \in devInFlight'
                   [] sPc = "getframe_ret" ->
                         \/ FetchOkStep /\ g_mutex' = "stream" /\ triggerErr'
                         \/ closeReason' = "fetch"
                   [] sPc = "oneshot" ->
                         /\ sPc' = "unlock" /\ triggerErr'
                         /\ g_triggerOneShot => ~g_triggerArmed'
                   [] sPc = "unlock" -> sPc' = "flatten" /\ triggerErr'
                   [] sPc = "flatten" -> sPc' = "send" /\ triggerErr'
                   [] sPc = "send" ->
                         \/ SendStep /\ wire'.frame = framePixels
                         \/ closeReason' = "send"
                   [] OTHER -> FALSE
           /\ (StreamerState(sPc) = "Acquiring" /\ sPc' = ClosedPc) =>
                 sPc = "getframe_ret" /\ closeReason' = "fetch" ]_vars

\* After a failed trigger the fetch succeeded, the one-shot disarm ran and the
\* frame is at the send.
C28_Witness ==
    /\ triggerErr /\ sPc = "send" /\ frameFresh
    /\ g_triggerOneShot /\ ~g_triggerArmed /\ startKind = "oneshot"


\* C29: no step of main() around a control session (end of MainLoop, quit
\* flag, join, destructor, accept, constructor, thread start) changes armed or
\* oneShot, and outside MainLoop only a streamer's one-shot disarm changes
\* them; a session that began armed and has issued no start, force or stop
\* still has armed set when its streamer enters the loop, so that streamer
\* acquires without any command of its own session.
C29_FlagsSurviveSessions ==
    /\ []((startKind = "carried" /\ (mainPc = "spawn" \/ sPc = "accept"))
              => g_triggerArmed)
    /\ [][ /\ mainPc' # mainPc => flagVars' = flagVars
           /\ (mainPc # "mainloop" /\ flagVars' # flagVars) => OneShotDisarmStep
           /\ (startKind = "carried" /\ startKind' = "carried"
                 /\ flagVars' # flagVars) => OneShotDisarmStep ]_vars

\* The streamer of a session that began armed is in an acquisition although
\* that session has issued no start, force or stop command.
C29_Witness ==
    /\ startKind = "carried" /\ mainPc = "mainloop"
    /\ sPc = "getframe_ret" /\ "stream" \in devInFlight
    /\ wire.frame # 0

============================================================================
